---- MODULE Spec2Model ----
(***************************************************************************)
(* A model of the Blender add-on Pureref2Blender.py ("Paste PureRef        *)
(* Images"): the two paste operators, the Pillow installer, register /     *)
(* unregister, and the two placement functions                             *)
(* get_camera_facing_position and get_viewport_facing_position.            *)
(*                                                                         *)
(* Geometry is exact integer arithmetic.  Vectors are triples <<x, y, z>>, *)
(* 3x3 matrices are triples of rows, a 4x4 transform is a record           *)
(* [rot |-> 3x3 part, trans |-> translation].  Orientations are drawn      *)
(* from the 24 axis-aligned rotations, for which normalisation, matrix     *)
(* inversion and the Euler conversion are exact; Euler angles are counted  *)
(* in quarter turns.                                                       *)
(***************************************************************************)
EXTENDS Integers, Sequences, FiniteSets, TLC

VARIABLES
    registered,   \* classes known to bpy.utils (host classes and the add-on's)
    menu,         \* draw functions of bpy.types.VIEW3D_MT_add, in order
    pillow,       \* TRUE when "import PIL" succeeds in the host's Python
    clipboard,    \* what ImageGrab.grabclipboard() returned to the last invocation
    tempfile,     \* content of <tempdir>/clipboard_image.png
    images,       \* bpy.data.images
    objects,      \* bpy.data.objects
    linked,       \* context.collection.objects, as indices into objects
    active,       \* view_layer.objects.active, an index into objects or 0
    selected,     \* indices of the selected objects
    context,      \* the context handed to the last invocation
    last,         \* the most recent operator invocation: what it did and reported
    calls,        \* number of operator invocations so far
    facing,       \* the most recent call of get_camera_facing_position
    baseline,     \* history: registered and menu as they were before register()
    offCamera     \* history: the paste operators that completed a paste in a scene
                  \* with a camera without giving the object a camera-facing placement

vars == <<registered, menu, pillow, clipboard, tempfile, images, objects,
          linked, active, selected, context, last, calls, facing, baseline,
          offCamera>>

----------------------------------------------------------------------------
(* Bounds of the model *)

MaxCalls == 2
MaxOffset == 2

----------------------------------------------------------------------------
(* mathutils: Vector and Matrix *)

Zero3 == <<0, 0, 0>>

Abs(n) == IF n < 0 THEN -n ELSE n

VAdd(a, b) == <<a[1] + b[1], a[2] + b[2], a[3] + b[3]>>

VSub(a, b) == <<a[1] - b[1], a[2] - b[2], a[3] - b[3]>>

VScale(a, k) == <<a[1] * k, a[2] * k, a[3] * k>>

VNeg(a) == <<-a[1], -a[2], -a[3]>>

Dot(a, b) == a[1] * b[1] + a[2] * b[2] + a[3] * b[3]

Cross(a, b) == <<a[2] * b[3] - a[3] * b[2],
                 a[3] * b[1] - a[1] * b[3],
                 a[1] * b[2] - a[2] * b[1]>>

\* Euclidean length of a vector whose length is a whole number
Length(a) == CHOOSE l \in 0..(Abs(a[1]) + Abs(a[2]) + Abs(a[3])) : l * l = Dot(a, a)

\* Vector.normalized(): the zero vector stays zero
Normalized(a) ==
    IF a = Zero3 THEN Zero3
    ELSE LET l == Length(a) IN <<a[1] \div l, a[2] \div l, a[3] \div l>>

Transposed(m) == <<<<m[1][1], m[2][1], m[3][1]>>,
                   <<m[1][2], m[2][2], m[3][2]>>,
                   <<m[1][3], m[2][3], m[3][3]>>>>

\* Matrix @ Vector
MatVec(m, v) == <<Dot(m[1], v), Dot(m[2], v), Dot(m[3], v)>>

Det(m) == Dot(m[1], Cross(m[2], m[3]))

Identity3 == <<<<1, 0, 0>>, <<0, 1, 0>>, <<0, 0, 1>>>>

\* Matrix.inverted() of a rigid 4x4 transform: rotation R^T, translation -R^T t
Inverted(m) ==
    [rot |-> Transposed(m.rot), trans |-> VNeg(MatVec(Transposed(m.rot), m.trans))]

\* atan2 in quarter turns, on arguments of which at most one is non-zero
Atan2(y, x) ==
    IF y > 0 THEN 1
    ELSE IF y < 0 THEN -1
    ELSE IF x < 0 THEN 2
    ELSE 0

\* Matrix.to_euler() (order XYZ) of an axis-aligned 3x3 matrix, in quarter
\* turns: of the two angle triples that give the matrix, the one with the
\* smaller sum of absolute angles.
ToEuler(m) ==
    LET cy == IF m[1][1] # 0 \/ m[2][1] # 0 THEN 1 ELSE 0
        e1 == IF cy > 0
              THEN <<Atan2(m[3][2], m[3][3]), Atan2(-m[3][1], cy), Atan2(m[2][1], m[1][1])>>
              ELSE <<Atan2(-m[2][3], m[2][2]), Atan2(-m[3][1], cy), 0>>
        e2 == IF cy > 0
              THEN <<Atan2(-m[3][2], -m[3][3]), Atan2(-m[3][1], -cy), Atan2(-m[2][1], -m[1][1])>>
              ELSE e1
        size(e) == Abs(e[1]) + Abs(e[2]) + Abs(e[3])
    IN  IF size(e1) > size(e2) THEN e2 ELSE e1

\* the 24 axis-aligned rotations
Unit(i, s) == [k \in 1..3 |-> IF k = i THEN s ELSE 0]

AxisMatrices ==
    {<<Unit(p[1], s[1]), Unit(p[2], s[2]), Unit(p[3], s[3])>> :
        p \in {q \in [1..3 -> 1..3] : {q[1], q[2], q[3]} = 1..3},
        s \in [1..3 -> {-1, 1}]}

Rotations == {m \in AxisMatrices : Det(m) = 1}

MatScale(m, k) == <<VScale(m[1], k), VScale(m[2], k), VScale(m[3], k)>>

MatMul(a, b) == Transposed(<<MatVec(a, Transposed(b)[1]), MatVec(a, Transposed(b)[2]),
                             MatVec(a, Transposed(b)[3])>>)

----------------------------------------------------------------------------
(* Placement functions *)

\* distance=5.0, the default of both placement functions
DefaultDistance == 5

\* the largest distance get_camera_facing_position is called with
MaxDistance == DefaultDistance

\* Rotation matrix built by get_camera_facing_position from the unit vector
\* `direction` (from the computed position toward the camera)
FacingMatrix(direction) ==
    LET steep == ~(Abs(direction[3]) * 1000 < 999)
        right == IF steep THEN <<1, 0, 0>>
                 ELSE Normalized(Cross(direction, <<0, 0, 1>>))
        up    == IF steep THEN <<0, 1, 0>>
                 ELSE Normalized(Cross(right, direction))
    IN  Transposed(<<right, up, VNeg(direction)>>)

\* get_camera_facing_position(context, distance); rotation_matrix is the
\* function's local variable, kept in the result for inspection
get_camera_facing_position(ctx, distance) ==
    IF ~ctx.camera.present
    THEN [position |-> Zero3, rotation |-> Zero3, has_matrix |-> FALSE,
          rotation_matrix |-> Identity3]
    ELSE LET camera_matrix   == ctx.camera.matrix_world
             forward         == Normalized(MatVec(camera_matrix.rot, <<0, 0, -1>>))
             camera_location == camera_matrix.trans
             position        == VAdd(camera_location, VScale(forward, distance))
             direction       == Normalized(VSub(camera_location, position))
             rotation_matrix == FacingMatrix(direction)
         IN  [position |-> position, rotation |-> ToEuler(rotation_matrix),
              has_matrix |-> TRUE, rotation_matrix |-> rotation_matrix]

\* in get_viewport_facing_position: the areas the loop returns from
IsViewport(a) == a.type = "VIEW_3D" /\ a.window

\* index of the area whose view matrix get_viewport_facing_position uses,
\* 0 when it falls through to the fallback
ViewportArea(ctx) ==
    LET hits == {i \in 1..Len(ctx.areas) : IsViewport(ctx.areas[i])}
    IN  IF hits = {} THEN 0 ELSE CHOOSE i \in hits : \A j \in hits : i <= j

\* position and view_rotation computed from one view matrix
ViewPlacement(view_matrix, distance) ==
    LET inv           == Inverted(view_matrix)
        view_location == inv.trans
        view_rotation == ToEuler(inv.rot)
        forward       == Normalized(MatVec(inv.rot, <<0, 0, -1>>))
    IN  [position |-> VAdd(view_location, VScale(forward, distance)),
         rotation |-> view_rotation]

\* get_viewport_facing_position(context, distance)
get_viewport_facing_position(ctx, distance) ==
    LET i == ViewportArea(ctx)
    IN  IF i = 0 THEN [position |-> Zero3, rotation |-> Zero3]
        ELSE ViewPlacement(ctx.areas[i].view_matrix, distance)

----------------------------------------------------------------------------
(* The host: classes, menu, contexts, clipboard *)

AddonClasses == {"InstallPillowOperator", "PastePureRefImageOperator",
                 "PastePureRefFromCursorOperator", "PasterefPreferences"}

HostClasses == {"VIEW3D_MT_add", "OBJECT_OT_add"}

HostMenus == {<<"host_draw">>, <<"host_draw", "other_addon_draw">>}

PasteOps == {"PastePureRefImageOperator", "PastePureRefFromCursorOperator"}

\* view matrices of the 3D views
ViewA == [rot |-> Identity3, trans |-> <<0, 0, -10>>]
ViewB == [rot |-> <<<<1, 0, 0>>, <<0, 0, 1>>, <<0, -1, 0>>>>, trans |-> <<1, 0, -8>>]

Area3D(v) == [type |-> "VIEW_3D", window |-> TRUE, view_matrix |-> v]
AreaBare(v) == [type |-> "VIEW_3D", window |-> FALSE, view_matrix |-> v]
AreaOther == [type |-> "PROPERTIES", window |-> TRUE, view_matrix |-> ViewA]

NoCamera == [present |-> FALSE, matrix_world |-> [rot |-> Identity3, trans |-> Zero3]]
Camera(m) == [present |-> TRUE, matrix_world |-> m]

CameraA == Camera([rot |-> <<<<1, 0, 0>>, <<0, 0, 1>>, <<0, -1, 0>>>>, trans |-> <<0, -7, 1>>])

\* the contexts an operator is invoked with
Contexts ==
    {[areas |-> <<Area3D(ViewA)>>, area |-> 1, cursor |-> Zero3, camera |-> NoCamera],
     [areas |-> <<Area3D(ViewB), Area3D(ViewA)>>, area |-> 2, cursor |-> <<1, 2, 3>>, camera |-> CameraA],
     [areas |-> <<AreaOther, Area3D(ViewB)>>, area |-> 1, cursor |-> Zero3, camera |-> CameraA],
     [areas |-> <<AreaBare(ViewB)>>, area |-> 1, cursor |-> <<1, 2, 3>>, camera |-> NoCamera]}

\* values of ImageGrab.grabclipboard(): None, a list of file paths, an image
Clipboards == {[kind |-> "none", id |-> 0], [kind |-> "files", id |-> 0],
               [kind |-> "image", id |-> 1], [kind |-> "image", id |-> 2]}

TempPath == "clipboard_image.png"

----------------------------------------------------------------------------
(* Exceptions and reports *)

\* the classes an exception of class c is an instance of
Bases(c) ==
    IF c = "ModuleNotFoundError" THEN {"ModuleNotFoundError", "ImportError", "Exception"}
    ELSE {c, "Exception"}

PillowMissing == "Pillow is not installed. Please install Pillow from the add-on preferences and restart Blender."

Report(level, text) == [level |-> level, text |-> text]

\* the except clauses with the catch-all written first
PasteHandlersCatchAllFirst(exc) ==
    IF "Exception" \in Bases(exc.cls)
    THEN [caught |-> TRUE, reports |-> <<Report("ERROR", exc.text)>>]
    ELSE IF "ImportError" \in Bases(exc.cls)
    THEN [caught |-> TRUE, reports |-> <<Report("ERROR", PillowMissing)>>]
    ELSE [caught |-> FALSE, reports |-> <<>>]

\* the except clauses of the paste operators, in order
PasteHandlers(exc) ==
    IF "ImportError" \in Bases(exc.cls)
    THEN [caught |-> TRUE, reports |-> <<Report("ERROR", PillowMissing)>>]
    ELSE IF "Exception" \in Bases(exc.cls)
    THEN [caught |-> TRUE, reports |-> <<Report("ERROR", exc.text)>>]
    ELSE [caught |-> FALSE, reports |-> <<>>]

\* the host calls a paste step makes, with the exception each can raise
Raises ==
    [grabclipboard |-> "NotImplementedError", save |-> "OSError",
     load |-> "RuntimeError", link |-> "RuntimeError",
     select |-> "RuntimeError"]

Fallible == DOMAIN Raises

----------------------------------------------------------------------------
(* The paste operators *)

\* ImageBody with the object linked as soon as it is created
ImageBodyEarlyLink ==
    <<"import", "grabclipboard", "isinstance", "save", "load", "new", "link",
      "display_type", "data", "viewport", "location", "rotation", "scale",
      "active", "select", "report">>

\* the statements of PastePureRefImageOperator.execute's try block, in order
ImageBody ==
    <<"import", "grabclipboard", "isinstance", "save", "load", "new",
      "display_type", "data", "viewport", "location", "rotation", "scale",
      "link", "active", "select", "report">>

\* CursorBody with the location assigned before the cursor is read
CursorBodyStale ==
    <<"import", "grabclipboard", "isinstance", "save", "load", "new",
      "display_type", "data", "location", "cursor", "viewport", "rotation",
      "scale", "link", "active", "select", "report">>

\* CursorBody with the scale assigned after the object is linked
CursorBodyLateScale ==
    <<"import", "grabclipboard", "isinstance", "save", "load", "new",
      "display_type", "data", "cursor", "location", "viewport", "rotation",
      "link", "scale", "active", "select", "report">>

\* the statements of PastePureRefFromCursorOperator.execute's try block
CursorBody ==
    <<"import", "grabclipboard", "isinstance", "save", "load", "new",
      "display_type", "data", "cursor", "location", "viewport", "rotation",
      "scale", "link", "active", "select", "report">>

Body(op) == IF op = "PastePureRefImageOperator" THEN ImageBody ELSE CursorBody

\* the distance each operator passes to get_viewport_facing_position
ViewDistance(op) == IF op = "PastePureRefImageOperator" THEN DefaultDistance ELSE 0

InfoText(op) ==
    IF op = "PastePureRefImageOperator"
    THEN "Image pasted from clipboard and positioned in front of viewport"
    ELSE "Image pasted from clipboard at cursor position facing user"

\* bpy.data.objects.new(name, None)
NewObject(name) ==
    [name |-> name, empty_display_type |-> "PLAIN_AXES", data |-> 0,
     location |-> Zero3, rotation_euler |-> Zero3, scale |-> <<1, 1, 1>>]

\* the frame of an execute call: the data the statements read and write
Frame(op, clip) ==
    [op |-> op, clipboard |-> clip, tempfile |-> tempfile, images |-> images, objects |-> objects,
     linked |-> linked, active |-> active, selected |-> selected,
     image |-> [kind |-> "none", id |-> 0], img |-> 0, ref |-> 0,
     position |-> Zero3, rotation |-> Zero3, steps |-> <<>>, reports |-> <<>>]

\* the effect of one statement that completes
Apply(st, f, ctx) ==
    LET g == [f EXCEPT !.steps = Append(@, st)] IN
    CASE st = "grabclipboard" -> [g EXCEPT !.image = f.clipboard]
      [] st = "save" -> [g EXCEPT !.tempfile = f.image.id]
      [] st = "load" ->
            [g EXCEPT !.images = Append(@, [name |-> <<TempPath, Len(f.images)>>,
                                            filepath |-> TempPath]),
                      !.img = Len(f.images) + 1]
      [] st = "new" ->
            [g EXCEPT !.objects = Append(@, NewObject(f.images[f.img].name)),
                      !.ref = Len(f.objects) + 1]
      [] st = "display_type" -> [g EXCEPT !.objects[f.ref].empty_display_type = "IMAGE"]
      [] st = "data" -> [g EXCEPT !.objects[f.ref].data = f.img]
      [] st = "viewport" ->
            LET r == get_viewport_facing_position(ctx, ViewDistance(f.op))
            IN  IF f.op = "PastePureRefImageOperator"
                THEN [g EXCEPT !.position = r.position, !.rotation = r.rotation]
                ELSE [g EXCEPT !.rotation = r.rotation]
      [] st = "cursor" -> [g EXCEPT !.position = ctx.cursor]
      [] st = "location" -> [g EXCEPT !.objects[f.ref].location = f.position]
      [] st = "rotation" -> [g EXCEPT !.objects[f.ref].rotation_euler = f.rotation]
      [] st = "scale" -> [g EXCEPT !.objects[f.ref].scale = <<2, 2, 1>>]
      [] st = "link" -> [g EXCEPT !.linked = Append(@, f.ref)]
      [] st = "active" -> [g EXCEPT !.active = f.ref]
      [] st = "select" -> [g EXCEPT !.selected = @ \cup {f.ref}]
      [] st = "report" -> [g EXCEPT !.reports = Append(@, Report("INFO", InfoText(f.op)))]
      [] OTHER -> g

\* leaving the try block with a handler that also removes the temporary file
RaiseCleanup(f, exc) ==
    LET h == PasteHandlers(exc)
    IN  [frame |-> [f EXCEPT !.reports = @ \o h.reports, !.tempfile = 0],
         returned |-> IF h.caught THEN "FINISHED" ELSE "none",
         escaped |-> ~h.caught, raised |-> exc.text]

\* leaving the try block with exception exc
Raise(f, exc) ==
    LET h == PasteHandlers(exc)
    IN  [frame |-> [f EXCEPT !.reports = @ \o h.reports],
         returned |-> IF h.caught THEN "FINISHED" ELSE "none",
         escaped |-> ~h.caught, raised |-> exc.text]

\* the statements from the i-th on; `fail` names the host call that raises
\* ("none": no host call raises)
RECURSIVE Run(_, _, _, _, _)
Run(body, i, f, ctx, fail) ==
    IF i > Len(body)
    THEN [frame |-> f, returned |-> "FINISHED", escaped |-> FALSE, raised |-> "none"]
    ELSE LET st == body[i] IN
         IF st = "import" /\ ~pillow
         THEN Raise(f, [cls |-> "ModuleNotFoundError", text |-> "import"])
         ELSE IF st = fail
         THEN Raise(f, [cls |-> Raises[st], text |-> st])
         ELSE IF st = "isinstance" /\ f.image.kind # "image"
         THEN [frame |-> [f EXCEPT !.steps = Append(@, st),
                                   !.reports = Append(@, Report("WARNING", "No image in clipboard"))],
               returned |-> "FINISHED", escaped |-> FALSE, raised |-> "none"]
         ELSE Run(body, i + 1, Apply(st, f, ctx), ctx, fail)

\* execute(self, context) of operator op
Execute(op, ctx, clip, fail) == Run(Body(op), 1, Frame(op, clip), ctx, fail)

\* poll(cls, context)
Poll(ctx) == ctx.areas[ctx.area].type = "VIEW_3D"

\* r, the outcome of an execute call, is a completed paste
Completed(r) == r.raised = "none" /\ r.frame.ref # 0

\* object o has a location and rotation get_camera_facing_position computes
\* for the camera of ctx
CameraPlaced(o, ctx) ==
    \E d \in 0..MaxDistance :
        LET c == get_camera_facing_position(ctx, d)
        IN  o.location = c.position /\ o.rotation_euler = c.rotation

\* the host invokes paste operator op with context ctx while the clipboard
\* holds clip
Paste(op, ctx, clip, fail) ==
    /\ calls < MaxCalls
    /\ op \in registered
    /\ Poll(ctx)
    /\ \E r \in {Execute(op, ctx, clip, fail)} :
        /\ tempfile' = r.frame.tempfile
        /\ images' = r.frame.images
        /\ objects' = r.frame.objects
        /\ linked' = r.frame.linked
        /\ active' = r.frame.active
        /\ selected' = r.frame.selected
        /\ last' = [op |-> op, steps |-> r.frame.steps, reports |-> r.frame.reports,
                    ref |-> r.frame.ref, returned |-> r.returned,
                    escaped |-> r.escaped, raised |-> r.raised]
        /\ offCamera' = IF Completed(r) /\ ctx.camera.present
                           /\ ~CameraPlaced(r.frame.objects[r.frame.ref], ctx)
                        THEN offCamera \cup {op} ELSE offCamera
    /\ context' = ctx
    /\ clipboard' = clip
    /\ calls' = calls + 1
    /\ UNCHANGED <<registered, menu, pillow, facing, baseline>>

PasteImage ==
    \E ctx \in Contexts, clip \in Clipboards, fail \in Fallible \cup {"none"} :
        Paste("PastePureRefImageOperator", ctx, clip, fail)

PasteFromCursor ==
    \E ctx \in Contexts, clip \in Clipboards, fail \in Fallible \cup {"none"} :
        Paste("PastePureRefFromCursorOperator", ctx, clip, fail)

\* InstallPillowOperator.execute: ok says whether ensurepip and pip succeed
InstallPillow ==
    /\ "InstallPillowOperator" \in registered
    /\ \E ok \in BOOLEAN :
        /\ pillow' = (pillow \/ ok)
        /\ last' = [op |-> "InstallPillowOperator", steps |-> <<>>,
                    reports |-> IF ok
                                THEN <<Report("INFO", "Pillow installed successfully. Please restart Blender.")>>
                                ELSE <<Report("ERROR", "Failed to install Pillow")>>,
                    ref |-> 0, returned |-> "FINISHED", escaped |-> FALSE,
                    raised |-> IF ok THEN "none" ELSE "install"]
    /\ UNCHANGED <<registered, menu, clipboard, tempfile, images, objects, linked,
                   active, selected, context, calls, facing, baseline, offCamera>>

----------------------------------------------------------------------------
(* register / unregister *)

\* list.remove: drop the first occurrence of x
RECURSIVE Remove(_, _)
Remove(s, x) ==
    IF s = <<>> THEN <<>>
    ELSE IF Head(s) = x THEN Tail(s)
    ELSE <<Head(s)>> \o Remove(Tail(s), x)

\* register()
Register ==
    /\ AddonClasses \cap registered = {}
    /\ registered' = registered \cup AddonClasses
    /\ menu' = Append(menu, "menu_func")
    /\ baseline' = [registered |-> registered, menu |-> menu]
    /\ UNCHANGED <<pillow, clipboard, tempfile, images, objects, linked, active,
                   selected, context, last, calls, facing, offCamera>>

\* unregister() without the menu removal
UnregisterKeepsMenu ==
    /\ AddonClasses \subseteq registered
    /\ registered' = registered \ AddonClasses
    /\ UNCHANGED <<menu, pillow, clipboard, tempfile, images, objects, linked, active,
                   selected, context, last, calls, facing, baseline, offCamera>>

\* unregister()
Unregister ==
    /\ AddonClasses \subseteq registered
    /\ registered' = registered \ AddonClasses
    /\ menu' = Remove(menu, "menu_func")
    /\ UNCHANGED <<pillow, clipboard, tempfile, images, objects, linked, active,
                   selected, context, last, calls, facing, baseline, offCamera>>

----------------------------------------------------------------------------
(* The add-on in the host *)

NoCall ==
    [op |-> "none", steps |-> <<>>, reports |-> <<>>,
     ref |-> 0, returned |-> "none", escaped |-> FALSE, raised |-> "none"]

NoFacing ==
    [called |-> FALSE, distance |-> 0,
     result |-> [position |-> Zero3, rotation |-> Zero3, has_matrix |-> FALSE,
                 rotation_matrix |-> Identity3]]

Init ==
    /\ registered = HostClasses
    /\ menu \in HostMenus
    /\ pillow \in BOOLEAN
    /\ clipboard = [kind |-> "none", id |-> 0]
    /\ tempfile = 0
    /\ images = <<>>
    /\ objects = <<>>
    /\ linked = <<>>
    /\ active = 0
    /\ selected = {}
    /\ context = [areas |-> <<Area3D(ViewA)>>, area |-> 1, cursor |-> Zero3, camera |-> NoCamera]
    /\ last = NoCall
    /\ calls = 0
    /\ facing = NoFacing
    /\ baseline = [registered |-> registered, menu |-> menu]
    /\ offCamera = {}

Next ==
    \/ Register
    \/ Unregister
    \/ PasteImage
    \/ PasteFromCursor
    \/ InstallPillow

Spec == Init /\ [][Next]_vars

----------------------------------------------------------------------------
(* get_camera_facing_position on its own: called with every camera *)

CameraScales == {1, 2}

CameraLocations == {<<x, 0, 1>> : x \in 0..(MaxOffset - 1)}

Cameras ==
    {NoCamera} \cup
    {Camera([rot |-> MatScale(m, k), trans |-> t]) :
        m \in Rotations, k \in CameraScales, t \in CameraLocations}

Distances == {DefaultDistance, 2}

CallCameraFacing ==
    /\ \E cam \in Cameras, d \in Distances :
        /\ context' = [context EXCEPT !.camera = cam]
        /\ facing' = [called |-> TRUE, distance |-> d,
                      result |-> get_camera_facing_position([context EXCEPT !.camera = cam], d)]
    /\ UNCHANGED <<registered, menu, pillow, clipboard, tempfile, images, objects,
                   linked, active, selected, last, calls, baseline, offCamera>>

NextCamera == CallCameraFacing

SpecCamera == Init /\ [][NextCamera]_vars

----------------------------------------------------------------------------
(* Properties *)

IsPaste == last.op \in PasteOps

Reported(level) == Len(last.reports) = 1 /\ last.reports[1].level = level

\* the last invocation was a paste that ran to its INFO report
Pasted(op) == last.op = op /\ Reported("INFO")

\* the positions at which x occurs in sequence s
At(s, x) == {i \in 1..Len(s) : s[i] = x}

\* every member of `chain` occurs exactly once in s, in the order of `chain`
InOrder(s, chain) ==
    /\ \A k \in 1..Len(chain) : Cardinality(At(s, chain[k])) = 1
    /\ \A k \in 1..(Len(chain) - 1) :
        \A i \in At(s, chain[k]), j \in At(s, chain[k + 1]) : i < j

Range(s) == {s[i] : i \in 1..Len(s)}

\* C1: every invocation of a paste operator returns {'FINISHED'}, lets no
\* exception escape and emits exactly one report: the Pillow ERROR when the
\* import fails, ERROR with the exception's text when a later step raises,
\* WARNING when the clipboard holds no image, INFO only when every statement
\* of the operator completed.
C1_OneReport ==
    IsPaste =>
        /\ ~last.escaped
        /\ last.returned = "FINISHED"
        /\ Len(last.reports) = 1
        /\ last.reports[1] =
             IF ~pillow THEN Report("ERROR", PillowMissing)
             ELSE IF last.raised # "none" THEN Report("ERROR", last.raised)
             ELSE IF clipboard.kind # "image" THEN Report("WARNING", "No image in clipboard")
             ELSE Report("INFO", InfoText(last.op))
        /\ (~pillow <=> last.raised = "import")
        /\ Reported("INFO") => last.raised = "none" /\ last.steps = Body(last.op)

\* a paste in which a host call after the import raised
C1_Witness ==
    /\ IsPaste /\ pillow /\ last.raised = "link"
    /\ last.reports = <<Report("ERROR", "link")>>

\* C2: in every screen layout, the object PastePureRefImageOperator creates
\* is placed by the view matrix of the 3D view the operator was invoked from
\* (context.area), at distance 5 along that view's forward direction.
C2_InvokingArea ==
    (Pasted("PastePureRefImageOperator") /\ IsViewport(context.areas[context.area])) =>
        LET own == ViewPlacement(context.areas[context.area].view_matrix, DefaultDistance)
        IN  /\ objects[last.ref].location = own.position
            /\ objects[last.ref].rotation_euler = own.rotation

\* C3: at least one paste operator gives the objects it creates the location
\* and rotation get_camera_facing_position computes for the scene's camera.
C3_SomeOperatorUsesCamera == offCamera # PasteOps

\* C4: when the clipboard holds a list of file paths and no host call
\* raises, the paste creates and links an object and reports INFO.
C4_FilesPasted ==
    (IsPaste /\ pillow /\ clipboard.kind = "files" /\ last.raised = "none") =>
        /\ Reported("INFO")
        /\ last.ref \in Range(linked)

\* the rotation PastePureRefImageOperator assigns in context ctx
ImageOperatorRotation(ctx) ==
    LET r == Execute("PastePureRefImageOperator", ctx, clipboard, "none")
    IN  r.frame.objects[r.frame.ref].rotation_euler

\* C5: a completed PastePureRefFromCursorOperator leaves its object at the 3D
\* cursor, with the rotation PastePureRefImageOperator would assign in the
\* same context; without a VIEW_3D area with a WINDOW region that rotation
\* is (0, 0, 0).
C5_CursorPlacement ==
    Pasted("PastePureRefFromCursorOperator") =>
        /\ objects[last.ref].location = context.cursor
        /\ objects[last.ref].rotation_euler = ImageOperatorRotation(context)
        /\ objects[last.ref].rotation_euler =
              get_viewport_facing_position(context, DefaultDistance).rotation
        /\ (\A i \in 1..Len(context.areas) : ~IsViewport(context.areas[i]))
              => objects[last.ref].rotation_euler = Zero3

\* a cursor paste away from the origin, in a screen with a 3D view
C5_Witness ==
    /\ Pasted("PastePureRefFromCursorOperator")
    /\ context.cursor # Zero3
    /\ ViewportArea(context) # 0
    /\ objects[last.ref].rotation_euler # Zero3

\* C6: a completed paste has read the clipboard, written the file, loaded
\* it, created the object, positioned it, and then linked, activated and
\* selected it, each once and in that order; an invocation that links an
\* object has completed the read, the write and the load before.
C6_StepOrder ==
    IsPaste =>
        /\ Reported("INFO") =>
              InOrder(last.steps, <<"grabclipboard", "save", "load", "new", "location",
                                    "rotation", "link", "active", "select", "report">>)
        /\ "link" \in Range(last.steps) =>
              InOrder(last.steps, <<"grabclipboard", "save", "load", "new", "location", "link">>)
        /\ (last.ref \in Range(linked)) <=> ("link" \in Range(last.steps))

\* a paste that linked its object and then failed
C6_Witness ==
    /\ IsPaste /\ last.raised = "select"
    /\ last.ref \in Range(linked)

\* the statements that set the attributes C7 names
Setters == {"location", "rotation", "scale", "data"}

C7_SetOnce ==
    /\ \A i \in 1..Len(objects) :
          /\ objects[i].scale = <<2, 2, 1>>
          /\ objects[i].data \in 1..Len(images)
    /\ IsPaste =>
          \A st \in Setters :
              /\ Cardinality(At(last.steps, st)) <= 1
              /\ \A i \in At(last.steps, st), j \in At(last.steps, "link") : i < j
              /\ last.ref # 0 => st \in Range(last.steps)

C7_Kept ==
    /\ Len(objects') >= Len(objects)
    /\ \A i \in 1..Len(objects) : objects'[i] = objects[i]

\* C7: every object a paste creates has its location, rotation, scale
\* (2, 2, 1) and image assigned once, in the invocation that creates it and
\* before it is linked; no later step changes an object that exists.
C7_AssignedOnce == []C7_SetOnce /\ [][C7_Kept]_vars

\* a second paste after one that created an object at another place
C7_Witness ==
    /\ Len(objects) = 2
    /\ objects[1].location # objects[2].location
    /\ objects[1].data # objects[2].data

\* C8: register() adds exactly the four classes and one menu_func entry at
\* the end of the menu; after unregister() the registered classes and the
\* menu are what they were before register().
C8_RoundTrip ==
    /\ AddonClasses \cap registered = {} \/ AddonClasses \subseteq registered
    /\ AddonClasses \cap registered = {} =>
          registered = baseline.registered /\ menu = baseline.menu
    /\ AddonClasses \subseteq registered =>
          /\ registered = baseline.registered \cup AddonClasses
          /\ menu = baseline.menu \o <<"menu_func">>
    /\ baseline.registered \cap AddonClasses = {}
    /\ "menu_func" \notin Range(baseline.menu)

\* unregistered again, after the operators were registered and used
C8_Witness ==
    /\ AddonClasses \cap registered = {}
    /\ calls > 0
    /\ Len(menu) = 2

IsProperRotation(m) == MatMul(m, Transposed(m)) = Identity3 /\ Det(m) = 1

\* C9: for every camera the matrix get_camera_facing_position builds is a
\* proper rotation, the position lies `distance` along the camera's forward
\* axis, and the object's local +Z axis points toward the camera; without a
\* camera the result is the origin with rotation (0, 0, 0).
C9_FacesCamera ==
    facing.called =>
        IF context.camera.present
        THEN LET location == context.camera.matrix_world.trans
                 forward  == Normalized(MatVec(context.camera.matrix_world.rot, <<0, 0, -1>>))
                 m        == facing.result.rotation_matrix
             IN  /\ IsProperRotation(m)
                 /\ facing.result.position = VAdd(location, VScale(forward, facing.distance))
                 /\ MatVec(m, <<0, 0, 1>>) = VNeg(forward)
        ELSE facing.result.position = Zero3 /\ facing.result.rotation = Zero3

C10_Step ==
    /\ (tempfile # 0 => tempfile' # 0)
    /\ (calls' = calls \/ last'.op \notin PasteOps) => tempfile' = tempfile
    /\ (calls' # calls /\ last'.op \in PasteOps) =>
          /\ tempfile' = IF "save" \in Range(last'.steps) THEN clipboard'.id ELSE tempfile
          /\ (last'.reports[1].level = "WARNING" \/ last'.reports[1].text = PillowMissing)
                => UNCHANGED <<tempfile, images, objects, linked, active, selected>>

C10_OnePath ==
    /\ \A i \in 1..Len(images) : images[i].filepath = TempPath
    /\ (IsPaste /\ "save" \in Range(last.steps)) => (tempfile = clipboard.id /\ tempfile # 0)

====
